---- MODULE Spec2Model ----
(***************************************************************************)
(* Step-by-step Groth16 pairing verifier (contract) and its driver         *)
(* (client).  The contract entry point process_instruction decodes one     *)
(* instruction, reads the accounts (slots) it is given, applies one step   *)
(* of the Miller loop or of the final exponentiation, and writes one slot. *)
(*                                                                         *)
(* Target-group values.  The contract only multiplies, squares, inverts,   *)
(* conjugates and applies Frobenius maps to Fq12 values; it never adds     *)
(* them.  A non-zero value is therefore represented by its discrete        *)
(* logarithm in the cyclic group Fq12^* of order q^12 - 1 (multiplication  *)
(* is addition of logarithms, frobenius_map(k) is multiplication by q^k,   *)
(* conjugate is frobenius_map(6)), and the field's zero by Zero.  The      *)
(* model runs this arithmetic for a small q.                               *)
(***************************************************************************)
EXTENDS Integers, Sequences, FiniteSets, TLC

VARIABLES
    slots,      \* account name -> the 384 bytes the account holds
    outcome,    \* what the last instruction returned to its sender
    instr,      \* the last instruction processed (accounts, header bytes, payload)
    pre,        \* the slots as they were before the last instruction
    phase,      \* the driver's position: which loop of groth16_verify it is in
    li,         \* the driver's loop variable i
    cj,         \* the driver's coefficient counter j
    run,        \* the run's inputs: prepared_input, proof_c, qap (byte strings)
    ghost       \* bookkeeping of the pure-function specifications

vars == <<slots, outcome, instr, pre, phase, li, cj, run, ghost>>

---------------------------------------------------------------------------
(* Bounds of the model *)

\* size of the model's base field (BN254's q is a 254-bit prime)
q == 4
\* the non-infinity curve points a payload can encode are 1..MaxPoint
MaxPoint == 2
\* the initial slot contents and payload values are drawn from g^0 .. g^MaxInit
MaxInit == 2

---------------------------------------------------------------------------
(* Fq12 arithmetic on discrete logarithms *)

\* order of the multiplicative group of Fq12
M == q^12 - 1
\* order of the cyclotomic subgroup, Phi_12(q)
Phi12 == q^4 - q^2 + 1

Zero == -1
One == 0
Elements == {Zero} \cup (0 .. M - 1)

RECURSIVE MulMod(_, _)
\* a * b mod M without leaving 32-bit integers
MulMod(a, b) ==
    IF b = 0 THEN 0
    ELSE (((a * (b % 8)) % M) + ((8 * MulMod(a, b \div 8)) % M)) % M

\* the residue of an integer (possibly negative) modulo M
Norm(a) == ((a % M) + M) % M

Mul(a, b) == IF a = Zero \/ b = Zero THEN Zero ELSE (a + b) % M
Square(a) == Mul(a, a)
FrobeniusMap(a, k) == IF a = Zero THEN Zero ELSE MulMod(a, (q^k) % M)
Conjugate(a) == FrobeniusMap(a, 6)
\* inverse() is None for zero: callers test Invertible first
Invertible(a) == a # Zero
Inverse(a) == (M - a) % M
\* a^n for a non-zero a and a residue n of the exponent modulo M
Pow(a, n) == IF a = Zero THEN Zero ELSE MulMod(a, n)

InCyclotomic(a) == a # Zero /\ MulMod(a, Phi12) = 0
\* Granger-Scott squaring: the square on the cyclotomic subgroup, some other
\* field value elsewhere (zero for zero)
CyclotomicSquare(a) ==
    IF a = Zero THEN Zero
    ELSE IF InCyclotomic(a) THEN Square(a)
    ELSE (2 * a + 1) % M

---------------------------------------------------------------------------
(* Byte strings: the canonical encoding of an Fq12 value, and payloads *)

\* a payload or instruction that is shorter than what is read from it
Short == -2
\* 384 bytes with an out-of-range limb
Malformed == M + 1
SlotBytes == 0 .. M + 1

Encode(v) == v + 1
Readable(b) == b \in 0 .. M
\* mutant: the first limb read as the value itself
Decode_NoOffset(b) == b

Decode(b) == b - 1

\* G1 payloads: 0 is the encoding of the point at infinity
Infinity == 0
PointReadable(b) == b \in 0 .. MaxPoint
PointDecode(b) == b

---------------------------------------------------------------------------
(* Fixed tables *)

NAF == <<1, 0, 0, 0, 1, 0, 1, 0, 0, -1, 0, 1, 0, 1, 0, -1, 0, 0, 1, 0, 1, 0, -1,
         0, -1, 0, -1, 0, 1, 0, 0, 0, 1, 0, 0, 1, 0, 1, 0, 1, 0, -1, 0, 1, 0, 0,
         1, 0, 0, 0, 0, 1, 0, 1, 0, 0, 0, 0, -1, 0, 0, 0, 1>>

\* ark_bn254::Parameters::ATE_LOOP_COUNT, least significant digit first
ATE_LOOP_COUNT ==
    <<0, 0, 0, 1, 0, 1, 0, -1, 0, 0, 1, -1, 0, 0, 1, 0, 0, 1, 1, 0, -1, 0, 0, 1,
      0, -1, 0, 0, 0, 0, 1, 1, 1, 0, 0, -1, 0, 0, 1, 0, 0, 0, 0, 0, -1, 0, 0, 1,
      1, 0, 0, -1, 0, 0, 0, 1, 1, 0, -1, 0, 0, 1, 0, 1, 1>>

\* the Rust arrays are indexed from 0; an index outside the array panics
InNAF(j) == j \in 0 .. Len(NAF) - 1
\* mutant: the table with its signs swapped
NAFAt_Negated(j) == 0 - NAF[j + 1]
NAFAt(j) == NAF[j + 1]
InAte(k) == k \in 0 .. Len(ATE_LOOP_COUNT) - 1
AteAt(k) == ATE_LOOP_COUNT[k + 1]

\* pvk: the line coefficients of the prepared gamma and delta G2 elements,
\* one entry per line evaluation of the Miller loop
NumCoeffs == Len(ATE_LOOP_COUNT) - 1
           + Cardinality({k \in 1 .. Len(ATE_LOOP_COUNT) - 1 : ATE_LOOP_COUNT[k] # 0})
           + 2
InCoeffs(j) == j \in 0 .. NumCoeffs - 1
get_gamma_qef(j) == (17 * j + 5) % M
get_delta_qef(j) == (29 * j + 11) % M
RECURSIVE Pow2(_)
\* 2^k modulo M
Pow2(k) == IF k = 0 THEN 1 % M ELSE (2 * Pow2(k - 1)) % M

\* the integer, modulo M, that sub-steps lo..hi build from the NAF digits in
\* step order: doubled before each digit but the first, then the digit added
RECURSIVE NafValue(_, _)
NafValue(lo, hi) ==
    IF lo = hi THEN Norm(NAFAt(lo))
    ELSE LET mid == (lo + hi) \div 2 IN
         (MulMod(NafValue(lo, mid), Pow2(hi - mid)) + NafValue(mid + 1, hi)) % M

\* z, the value of the whole table, modulo M
Z == NafValue(0, Len(NAF) - 1)
Z2 == MulMod(Z, Z)
Z3 == MulMod(Z2, Z)

\* (q^6 - 1)(q^2 + 1) modulo M
EasyExponent == MulMod(Norm(q^6 - 1), Norm(q^2 + 1))

\* q^3 (12z^3 + 6z^2 + 4z - 1) + q^2 (12z^3 + 6z^2 + 6z)
\*   + q (12z^3 + 6z^2 + 4z) + (12z^3 + 12z^2 + 6z + 1), modulo M
HardExponent ==
    LET l3 == Norm(MulMod(Z3, 12) + MulMod(Z2, 6) + MulMod(Z, 4) - 1)
        l2 == Norm(MulMod(Z3, 12) + MulMod(Z2, 6) + MulMod(Z, 6))
        l1 == Norm(MulMod(Z3, 12) + MulMod(Z2, 6) + MulMod(Z, 4))
        l0 == Norm(MulMod(Z3, 12) + MulMod(Z2, 12) + MulMod(Z, 6) + 1)
    IN  Norm(MulMod(l3, Norm(q^3)) + MulMod(l2, Norm(q^2)) + MulMod(l1, Norm(q)) + l0)

\* pvk: e(alpha, beta), the value the verdict compares with: the final
\* exponentiation of the Miller value of (alpha, beta)
AlphaBetaMiller == (21 + MaxInit) % M
get_alpha_g1_beta_g2 == Pow(Pow(AlphaBetaMiller, EasyExponent), HardExponent)

\* the line c0*p.y + c1*p.x + c2 of coefficient triple c evaluated at point p
LineValue(c, p) == (c * (p + 1) + 101 * p) % M

---------------------------------------------------------------------------
(* contract/src/utils.rs *)

Slots == {"gamma", "delta", "final"} \cup
         {"y0", "y1", "y2", "y3", "y4", "y5", "y6", "y7", "y8", "y9", "y10",
          "y11", "y12", "y13", "y14", "y15", "y16"}

\* what a step hands back: its outcome and the slots after it
Done(s) == [outcome |-> "Ok", slots |-> s]
Panic(s) == [outcome |-> "Panic", slots |-> s]
NotEnoughAccountKeys(s) == [outcome |-> "NotEnoughAccountKeys", slots |-> s]

\* the header bytes t, i, j must be there; the rest is the payload
unpack_instruction_data(data) == Len(data.hdr) >= 3

\* j = 0 yields one() without touching the account; otherwise the account's
\* bytes are decoded, and unwrap() panics on bytes that are no Fq12 value
CanGet(s, account, j) == j = 0 \/ Readable(s[account])
\* mutant: the account is decoded for j = 0 as well
get_account_data_AlwaysReads(s, account, j) == Decode(s[account])

get_account_data(s, account, j) == IF j = 0 THEN One ELSE Decode(s[account])

put_account_data(s, account, f) == [s EXCEPT ![account] = Encode(f)]

---------------------------------------------------------------------------
(* contract/src/miller_loop.rs *)

gamma_onchain_ell(f, j, p) == Mul(f, LineValue(get_gamma_qef(j), p))
delta_onchain_ell(f, j, p) == Mul(f, LineValue(get_delta_qef(j), p))

\* whether the step runs to its end: ATE_LOOP_COUNT[i - 1] and the
\* coefficient lookups are in range (not evaluated for the point at infinity)
SubMillerDefined(p, i, j) ==
    p = Infinity \/
    (/\ InCoeffs(j)
     /\ i >= 1 /\ InAte(i - 1)
     /\ (AteAt(i - 1) # 0 => InCoeffs(j + 1)))

\* mutant: the squaring moved out of the is_zero test
sub_gamma_miller_loop_SquaresAtInfinity(p, f, i, j) ==
    IF p = Infinity THEN (IF i # Len(ATE_LOOP_COUNT) - 1 THEN Square(f) ELSE f)
    ELSE LET f1 == IF i # Len(ATE_LOOP_COUNT) - 1 THEN Square(f) ELSE f
             f2 == gamma_onchain_ell(f1, j, p)
         IN  IF AteAt(i - 1) # 0 THEN gamma_onchain_ell(f2, j + 1, p) ELSE f2

sub_gamma_miller_loop(p, f, i, j) ==
    IF p = Infinity THEN f
    ELSE LET f1 == IF i # Len(ATE_LOOP_COUNT) - 1 THEN Square(f) ELSE f
             f2 == gamma_onchain_ell(f1, j, p)
         IN  IF AteAt(i - 1) = 1 THEN gamma_onchain_ell(f2, j + 1, p)
             ELSE IF AteAt(i - 1) = -1 THEN gamma_onchain_ell(f2, j + 1, p)
             ELSE f2

FinalMillerDefined(p, j) == p = Infinity \/ (InCoeffs(j) /\ InCoeffs(j + 1))

\* mutant: the second trailing line evaluation forgotten
final_gamma_miller_loop_OneLine(p, f, j) ==
    IF p = Infinity THEN f ELSE gamma_onchain_ell(f, j, p)

final_gamma_miller_loop(p, f, j) ==
    IF p = Infinity THEN f
    ELSE gamma_onchain_ell(gamma_onchain_ell(f, j, p), j + 1, p)

\* mutant: the trailing form chosen by loop_index 0
gamma_miller_loop_TrailingAtIndexZero(s, accounts, i, j, input) ==
    IF Len(accounts) < 1 THEN NotEnoughAccountKeys(s)
    ELSE LET gamma_account == accounts[1] IN
         IF ~PointReadable(input) THEN Panic(s)
         ELSE LET prepared_input == PointDecode(input) IN
              IF ~CanGet(s, gamma_account, j) THEN Panic(s)
              ELSE LET account_data == get_account_data(s, gamma_account, j) IN
                   IF i = 0
                   THEN IF ~FinalMillerDefined(prepared_input, j) THEN Panic(s)
                        ELSE Done(put_account_data(s, gamma_account,
                                 final_gamma_miller_loop(prepared_input, account_data, j)))
                   ELSE IF ~SubMillerDefined(prepared_input, i, j) THEN Panic(s)
                        ELSE Done(put_account_data(s, gamma_account,
                                 sub_gamma_miller_loop(prepared_input, account_data, i, j)))

gamma_miller_loop(s, accounts, i, j, input) ==
    IF Len(accounts) < 1 THEN NotEnoughAccountKeys(s)
    ELSE LET gamma_account == accounts[1] IN
         IF ~PointReadable(input) THEN Panic(s)
         ELSE LET prepared_input == PointDecode(input) IN
              IF ~CanGet(s, gamma_account, j) THEN Panic(s)
              ELSE LET account_data == get_account_data(s, gamma_account, j) IN
                   IF j = 89
                   THEN IF ~FinalMillerDefined(prepared_input, j) THEN Panic(s)
                        ELSE Done(put_account_data(s, gamma_account,
                                 final_gamma_miller_loop(prepared_input, account_data, j)))
                   ELSE IF ~SubMillerDefined(prepared_input, i, j) THEN Panic(s)
                        ELSE Done(put_account_data(s, gamma_account,
                                 sub_gamma_miller_loop(prepared_input, account_data, i, j)))

\* mutant: the squaring done at the first loop index too
sub_delta_miller_loop_AlwaysSquares(p, f, i, j) ==
    IF p = Infinity THEN f
    ELSE LET f2 == delta_onchain_ell(Square(f), j, p)
         IN  IF AteAt(i - 1) # 0 THEN delta_onchain_ell(f2, j + 1, p) ELSE f2

sub_delta_miller_loop(p, f, i, j) ==
    IF p = Infinity THEN f
    ELSE LET f1 == IF i # Len(ATE_LOOP_COUNT) - 1 THEN Square(f) ELSE f
             f2 == delta_onchain_ell(f1, j, p)
         IN  IF AteAt(i - 1) = 1 THEN delta_onchain_ell(f2, j + 1, p)
             ELSE IF AteAt(i - 1) = -1 THEN delta_onchain_ell(f2, j + 1, p)
             ELSE f2

final_delta_miller_loop(p, f, j) ==
    IF p = Infinity THEN f
    ELSE delta_onchain_ell(delta_onchain_ell(f, j, p), j + 1, p)

\* mutant: the accumulator taken from the gamma account
delta_miller_loop_OnGammaAccount(s, accounts, i, j, input) ==
    IF Len(accounts) < 1 THEN NotEnoughAccountKeys(s)
    ELSE IF ~PointReadable(input) THEN Panic(s)
    ELSE IF ~CanGet(s, "gamma", j) THEN Panic(s)
    ELSE LET proof_c == PointDecode(input)
             account_data == get_account_data(s, "gamma", j)
         IN  IF j = 89
             THEN IF ~FinalMillerDefined(proof_c, j) THEN Panic(s)
                  ELSE Done(put_account_data(s, "gamma",
                           final_delta_miller_loop(proof_c, account_data, j)))
             ELSE IF ~SubMillerDefined(proof_c, i, j) THEN Panic(s)
                  ELSE Done(put_account_data(s, "gamma",
                           sub_delta_miller_loop(proof_c, account_data, i, j)))

delta_miller_loop(s, accounts, i, j, input) ==
    IF Len(accounts) < 1 THEN NotEnoughAccountKeys(s)
    ELSE LET delta_account == accounts[1] IN
         IF ~PointReadable(input) THEN Panic(s)
         ELSE LET proof_c == PointDecode(input) IN
              IF ~CanGet(s, delta_account, j) THEN Panic(s)
              ELSE LET account_data == get_account_data(s, delta_account, j) IN
                   IF j = 89
                   THEN IF ~FinalMillerDefined(proof_c, j) THEN Panic(s)
                        ELSE Done(put_account_data(s, delta_account,
                                 final_delta_miller_loop(proof_c, account_data, j)))
                   ELSE IF ~SubMillerDefined(proof_c, i, j) THEN Panic(s)
                        ELSE Done(put_account_data(s, delta_account,
                                 sub_delta_miller_loop(proof_c, account_data, i, j)))

---------------------------------------------------------------------------
(* contract/src/final_exponentiation.rs *)

\* every slot among accounts[1..n] can be decoded (get_account_data(_, 1))
CanGetAll(s, accounts, n) == \A k \in 1 .. n : Readable(s[accounts[k]])

\* mutant: a negative digit multiplies by fe, like a positive one
exp_by_neg_x_IgnoresSign(fe, self_inverse, res, j) ==
    LET res1 == IF j > 0 THEN Square(res) ELSE res
    IN  IF NAFAt(j) # 0 THEN Mul(res1, fe) ELSE res1

exp_by_neg_x(fe, self_inverse, res, j) ==
    LET value == NAFAt(j)
        res1 == IF j > 0 THEN Square(res) ELSE res
    IN  IF value # 0
        THEN IF value > 0 THEN Mul(res1, fe) ELSE Mul(res1, self_inverse)
        ELSE res1

\* mutant: the three accounts looked up by name, not taken from the call
prepare_final_data_FixedAccounts(s, accounts, input) ==
    IF Len(accounts) < 3 THEN Panic(s)
    ELSE IF input = Short \/ ~Readable(input) THEN Panic(s)
    ELSE IF ~Readable(s["gamma"]) \/ ~Readable(s["delta"]) THEN Panic(s)
    ELSE Done(put_account_data(s, "final",
                 Mul(Mul(Decode(input), Decode(s["gamma"])), Decode(s["delta"]))))

prepare_final_data(s, accounts, input) ==
    IF Len(accounts) < 3 THEN Panic(s)
    ELSE LET gamma_account == accounts[1]
             delta_account == accounts[2]
             final_account == accounts[3]
         IN  IF input = Short \/ ~Readable(input) THEN Panic(s)
             ELSE IF ~CanGetAll(s, accounts, 2) THEN Panic(s)
             ELSE LET qap == Mul(Mul(Decode(input), get_account_data(s, gamma_account, 1)),
                                 get_account_data(s, delta_account, 1))
                  IN  Done(put_account_data(s, final_account, qap))

\* mutant: inverse().unwrap_or_default(), zero standing in for the inverse
easy_part1_DefaultInverse(s, accounts) ==
    IF Len(accounts) < 1 THEN Panic(s)
    ELSE LET final_account == accounts[1] IN
         IF ~CanGetAll(s, accounts, 1) THEN Panic(s)
         ELSE LET f == get_account_data(s, final_account, 1)
                  f1 == Conjugate(f)
              IN  IF ~Invertible(f) THEN Done(put_account_data(s, final_account, Zero))
                  ELSE Done(put_account_data(s, final_account, Mul(f1, Inverse(f))))

easy_part1(s, accounts) ==
    IF Len(accounts) < 1 THEN Panic(s)
    ELSE LET final_account == accounts[1] IN
         IF ~CanGetAll(s, accounts, 1) THEN Panic(s)
         ELSE LET f == get_account_data(s, final_account, 1)
                  f1 == Conjugate(f)
              IN  IF ~Invertible(f) THEN Panic(s)
                  ELSE Done(put_account_data(s, final_account, Mul(f1, Inverse(f))))

easy_part2(s, accounts) ==
    IF Len(accounts) < 1 THEN Panic(s)
    ELSE LET final_account == accounts[1] IN
         IF ~CanGetAll(s, accounts, 1) THEN Panic(s)
         ELSE LET f2 == get_account_data(s, final_account, 1)
                  r == Mul(FrobeniusMap(f2, 2), f2)
              IN  Done(put_account_data(s, final_account, r))

cal_y0(f, res, j) == exp_by_neg_x(f, Conjugate(f), res, j)

\* mutant: the result slot written before the digit is looked up
hard_part_y0_WritesFirst(s, accounts, j) ==
    IF Len(accounts) < 2 THEN Panic(s)
    ELSE LET final_account == accounts[1]
             y0_account == accounts[2]
         IN  IF ~CanGet(s, final_account, 1) \/ ~CanGet(s, y0_account, j) THEN Panic(s)
             ELSE LET r == get_account_data(s, final_account, 1) IN
                  IF ~InNAF(j) THEN Panic(put_account_data(s, y0_account, r))
                  ELSE LET y0 == cal_y0(r, get_account_data(s, y0_account, j), j)
                       IN  Done(put_account_data(s, y0_account,
                                                 IF j = 62 THEN Conjugate(y0) ELSE y0))

hard_part_y0(s, accounts, j) ==
    IF Len(accounts) < 2 THEN Panic(s)
    ELSE LET final_account == accounts[1]
             y0_account == accounts[2]
         IN  IF ~CanGet(s, final_account, 1) \/ ~CanGet(s, y0_account, j) THEN Panic(s)
             ELSE IF ~InNAF(j) THEN Panic(s)
             ELSE LET r == get_account_data(s, final_account, 1)
                      y0 == cal_y0(r, get_account_data(s, y0_account, j), j)
                  IN  Done(put_account_data(s, y0_account,
                                            IF j = 62 THEN Conjugate(y0) ELSE y0))

hard_part_y1(s, accounts) ==
    IF Len(accounts) < 2 THEN Panic(s)
    ELSE LET y0_account == accounts[1]
             y1_account == accounts[2]
         IN  IF ~CanGetAll(s, accounts, 1) THEN Panic(s)
             ELSE LET y0 == get_account_data(s, y0_account, 1)
                  IN  Done(put_account_data(s, y1_account, CyclotomicSquare(y0)))

cal_y3(f) ==
    LET y1 == CyclotomicSquare(f)
        y2 == CyclotomicSquare(y1)
    IN  Mul(y2, y1)

hard_part_y3(s, accounts) ==
    IF Len(accounts) < 2 THEN Panic(s)
    ELSE LET y0_account == accounts[1]
             y3_account == accounts[2]
         IN  IF ~CanGetAll(s, accounts, 1) THEN Panic(s)
             ELSE Done(put_account_data(s, y3_account,
                                        cal_y3(get_account_data(s, y0_account, 1))))

cal_y4(f, res, j) == exp_by_neg_x(f, Conjugate(f), res, j)

hard_part_y4(s, accounts, j) ==
    IF Len(accounts) < 2 THEN Panic(s)
    ELSE LET y3_account == accounts[1]
             y4_account == accounts[2]
         IN  IF ~CanGet(s, y3_account, 1) \/ ~CanGet(s, y4_account, j) THEN Panic(s)
             ELSE IF ~InNAF(j) THEN Panic(s)
             ELSE LET y3 == get_account_data(s, y3_account, 1)
                      y4 == cal_y4(y3, get_account_data(s, y4_account, j), j)
                  IN  Done(put_account_data(s, y4_account,
                                            IF j = 62 THEN Conjugate(y4) ELSE y4))

cal_y6(f, res, j) == exp_by_neg_x(f, Conjugate(f), res, j)

hard_part_y6(s, accounts, j) ==
    IF Len(accounts) < 2 THEN Panic(s)
    ELSE LET y4_account == accounts[1]
             y6_account == accounts[2]
         IN  IF ~CanGet(s, y4_account, 1) \/ ~CanGet(s, y6_account, j) THEN Panic(s)
             ELSE IF ~InNAF(j) THEN Panic(s)
             ELSE LET y4 == get_account_data(s, y4_account, 1)
                      y5 == CyclotomicSquare(y4)
                      y6 == cal_y6(y5, get_account_data(s, y6_account, j), j)
                  IN  Done(put_account_data(s, y6_account,
                                            IF j = 62 THEN Conjugate(y6) ELSE y6))

hard_part_y8(s, accounts) ==
    IF Len(accounts) < 4 THEN Panic(s)
    ELSE IF ~CanGetAll(s, accounts, 3) THEN Panic(s)
    ELSE LET y3 == Conjugate(get_account_data(s, accounts[1], 1))
             y4 == get_account_data(s, accounts[2], 1)
             y6 == Conjugate(get_account_data(s, accounts[3], 1))
             y7 == Mul(y6, y4)
             y8 == Mul(y7, y3)
         IN  Done(put_account_data(s, accounts[4], y8))

hard_part_y9(s, accounts) ==
    IF Len(accounts) < 3 THEN Panic(s)
    ELSE IF ~CanGetAll(s, accounts, 2) THEN Panic(s)
    ELSE LET y1 == get_account_data(s, accounts[1], 1)
             y8 == get_account_data(s, accounts[2], 1)
         IN  Done(put_account_data(s, accounts[3], Mul(y8, y1)))

\* mutant: the product written to the third account passed
hard_part_y11_WritesThird(s, accounts) ==
    IF Len(accounts) < 4 THEN Panic(s)
    ELSE IF ~CanGetAll(s, accounts, 3) THEN Panic(s)
    ELSE LET y4 == get_account_data(s, accounts[1], 1)
             y8 == get_account_data(s, accounts[2], 1)
             r == get_account_data(s, accounts[3], 1)
         IN  Done(put_account_data(s, accounts[3], Mul(Mul(y8, y4), r)))

hard_part_y11(s, accounts) ==
    IF Len(accounts) < 4 THEN Panic(s)
    ELSE IF ~CanGetAll(s, accounts, 3) THEN Panic(s)
    ELSE LET y4 == get_account_data(s, accounts[1], 1)
             y8 == get_account_data(s, accounts[2], 1)
             r == get_account_data(s, accounts[3], 1)
         IN  Done(put_account_data(s, accounts[4], Mul(Mul(y8, y4), r)))

\* mutant: frobenius_map(2) in the place of frobenius_map(1)
hard_part_y13_WrongPower(s, accounts) ==
    IF Len(accounts) < 3 THEN Panic(s)
    ELSE IF ~CanGetAll(s, accounts, 2) THEN Panic(s)
    ELSE LET y9 == get_account_data(s, accounts[1], 1)
             y11 == get_account_data(s, accounts[2], 1)
         IN  Done(put_account_data(s, accounts[3], Mul(FrobeniusMap(y9, 2), y11)))

hard_part_y13(s, accounts) ==
    IF Len(accounts) < 3 THEN Panic(s)
    ELSE IF ~CanGetAll(s, accounts, 2) THEN Panic(s)
    ELSE LET y9 == get_account_data(s, accounts[1], 1)
             y11 == get_account_data(s, accounts[2], 1)
             y12 == FrobeniusMap(y9, 1)
         IN  Done(put_account_data(s, accounts[3], Mul(y12, y11)))

hard_part_y14(s, accounts) ==
    IF Len(accounts) < 3 THEN Panic(s)
    ELSE IF ~CanGetAll(s, accounts, 2) THEN Panic(s)
    ELSE LET y8 == FrobeniusMap(get_account_data(s, accounts[1], 1), 2)
             y13 == get_account_data(s, accounts[2], 1)
         IN  Done(put_account_data(s, accounts[3], Mul(y8, y13)))

\* mutant: final taken from the first account and y9 from the second
hard_part_y15_FinalFirst(s, accounts) ==
    IF Len(accounts) < 3 THEN Panic(s)
    ELSE IF ~CanGetAll(s, accounts, 2) THEN Panic(s)
    ELSE LET y9 == get_account_data(s, accounts[2], 1)
             r == Conjugate(get_account_data(s, accounts[1], 1))
             y15 == FrobeniusMap(Mul(r, y9), 3)
         IN  Done(put_account_data(s, accounts[3], y15))

hard_part_y15(s, accounts) ==
    IF Len(accounts) < 3 THEN Panic(s)
    ELSE IF ~CanGetAll(s, accounts, 2) THEN Panic(s)
    ELSE LET y9 == get_account_data(s, accounts[1], 1)
             r == Conjugate(get_account_data(s, accounts[2], 1))
             y15 == FrobeniusMap(Mul(r, y9), 3)
         IN  Done(put_account_data(s, accounts[3], y15))

\* the value the verdict step compares with get_alpha_g1_beta_g2
Y16(s, accounts) ==
    Mul(get_account_data(s, accounts[2], 1), get_account_data(s, accounts[1], 1))

hard_part_y16(s, accounts) ==
    IF Len(accounts) < 2 THEN Panic(s)
    ELSE IF ~CanGetAll(s, accounts, 2) THEN Panic(s)
    ELSE IF Y16(s, accounts) = get_alpha_g1_beta_g2 THEN Done(s)
    ELSE Panic(s)

final_exponentiation(s, accounts, t, j, input) ==
    CASE t = 2 -> prepare_final_data(s, accounts, input)
      [] t = 3 -> easy_part1(s, accounts)
      [] t = 4 -> easy_part2(s, accounts)
      [] t = 5 -> hard_part_y0(s, accounts, j)
      [] t = 6 -> hard_part_y1(s, accounts)
      [] t = 7 -> hard_part_y3(s, accounts)
      [] t = 8 -> hard_part_y4(s, accounts, j)
      [] t = 9 -> hard_part_y6(s, accounts, j)
      [] t = 10 -> hard_part_y8(s, accounts)
      [] t = 11 -> hard_part_y9(s, accounts)
      [] t = 12 -> hard_part_y11(s, accounts)
      [] t = 13 -> hard_part_y13(s, accounts)
      [] t = 14 -> hard_part_y14(s, accounts)
      [] t = 15 -> hard_part_y15(s, accounts)
      [] t = 16 -> hard_part_y16(s, accounts)
      [] OTHER -> Done(s)

---------------------------------------------------------------------------
(* contract/src/lib.rs *)

\* an instruction: the accounts passed, the header bytes and the payload
OpT(data) == data.hdr[1]
OpI(data) == data.hdr[2]
OpJ(data) == data.hdr[3]

process_instruction(s, accounts, data) ==
    IF ~unpack_instruction_data(data) THEN Panic(s)
    ELSE LET t == OpT(data)
             i == OpI(data)
             j == OpJ(data)
             input == data.input
         IN  CASE t = 0 -> gamma_miller_loop(s, accounts, i, j, input)
               [] t = 1 -> delta_miller_loop(s, accounts, i, j, input)
               [] OTHER -> final_exponentiation(s, accounts, i, j, input)

---------------------------------------------------------------------------
(* client/src/client.rs: the driver *)

\* final_keys[n] is the account created with seed n.to_string()
final_keys == <<"y0", "y1", "y2", "y3", "y4", "y5", "y6", "y7", "y8", "y9", "y10",
                "y11", "y12", "y13", "y14", "y15", "y16">>
FinalKey(n) == final_keys[n + 1]

Instruction(accounts, t, i, j, input) ==
    [accounts |-> accounts, hdr |-> <<t, i, j>>, input |-> input]

\* the instructions Client::final_exponentiation sends, in order, numbered from 0
NumFinalSteps == 201
FinalSchedule(k, qap) ==
    CASE k = 0 -> Instruction(<<"gamma", "delta", "final">>, 2, 0, 0, qap)
      [] k = 1 -> Instruction(<<"final">>, 3, 0, 0, Short)
      [] k = 2 -> Instruction(<<"final">>, 4, 0, 0, Short)
      [] k \in 3 .. 65 -> Instruction(<<"final", FinalKey(0)>>, 5, 0, k - 3, Short)
      [] k = 66 -> Instruction(<<FinalKey(0), FinalKey(1)>>, 6, 0, 64, Short)
      [] k = 67 -> Instruction(<<FinalKey(0), FinalKey(3)>>, 7, 0, 0, Short)
      [] k \in 68 .. 130 -> Instruction(<<FinalKey(3), FinalKey(4)>>, 8, 0, k - 68, Short)
      [] k \in 131 .. 193 -> Instruction(<<FinalKey(4), FinalKey(6)>>, 9, 0, k - 131, Short)
      [] k = 194 -> Instruction(<<FinalKey(3), FinalKey(4), FinalKey(6), FinalKey(8)>>,
                                10, 0, 0, Short)
      [] k = 195 -> Instruction(<<FinalKey(1), FinalKey(8), FinalKey(9)>>, 11, 0, 0, Short)
      [] k = 196 -> Instruction(<<FinalKey(4), FinalKey(8), "final", FinalKey(11)>>,
                                12, 0, 0, Short)
      [] k = 197 -> Instruction(<<FinalKey(9), FinalKey(11), FinalKey(13)>>, 13, 0, 0, Short)
      [] k = 198 -> Instruction(<<FinalKey(8), FinalKey(13), FinalKey(14)>>, 14, 0, 0, Short)
      [] k = 199 -> Instruction(<<FinalKey(9), "final", FinalKey(15)>>, 15, 0, 0, Short)
      [] k = 200 -> Instruction(<<FinalKey(14), FinalKey(15)>>, 16, 0, 0, Short)

\* send_transction: the contract processes the instruction; the client
\* unwraps the result, so a failed instruction ends the client
Send(ins) ==
    LET r == process_instruction(slots, ins.accounts, ins) IN
    /\ slots' = r.slots
    /\ outcome' = r.outcome
    /\ instr' = ins
    /\ pre' = slots

\* mutant: the result of the transaction is not looked at
Sent_IgnoresResult(ins) == TRUE

Sent(ins) == process_instruction(slots, ins.accounts, ins).outcome = "Ok"

\* mutant: the second increment of j forgotten
NextCoeff_AlwaysOne(i, j) == j + 1

\* mutant: the digit taken at index i, not i - 1
NextCoeff_DigitAtIndex(i, j) == IF AteAt(i) = 1 \/ AteAt(i) = -1 THEN j + 2 ELSE j + 1

\* the coefficient counter after the loop body for index i
NextCoeff(i, j) == IF AteAt(i - 1) = 1 \/ AteAt(i - 1) = -1 THEN j + 2 ELSE j + 1

\* Client::gamma_miller_loop: for i in (1..ATE_LOOP_COUNT.len()).rev()
GammaStep ==
    /\ phase = "gamma" /\ li >= 1
    /\ LET ins == Instruction(<<"gamma">>, 0, li, cj, run.prepared_input) IN
       /\ Send(ins)
       /\ IF Sent(ins)
          THEN /\ phase' = (IF li = 1 THEN "gamma_last" ELSE "gamma")
               /\ li' = li - 1
               /\ cj' = NextCoeff(li, cj)
          ELSE phase' = "failed" /\ UNCHANGED <<li, cj>>
    /\ UNCHANGED <<run, ghost>>

\* Client::gamma_miller_loop: the instruction after the loop
GammaLast ==
    /\ phase = "gamma_last"
    /\ LET ins == Instruction(<<"gamma">>, 0, 0, cj, run.prepared_input) IN
       /\ Send(ins)
       /\ IF Sent(ins)
          THEN /\ phase' = "delta"
               /\ li' = Len(ATE_LOOP_COUNT) - 1
               /\ cj' = 0
          ELSE phase' = "failed" /\ UNCHANGED <<li, cj>>
    /\ UNCHANGED <<run, ghost>>

\* Client::delta_miller_loop
DeltaStep ==
    /\ phase = "delta" /\ li >= 1
    /\ LET ins == Instruction(<<"delta">>, 1, li, cj, run.proof_c) IN
       /\ Send(ins)
       /\ IF Sent(ins)
          THEN /\ phase' = (IF li = 1 THEN "delta_last" ELSE "delta")
               /\ li' = li - 1
               /\ cj' = NextCoeff(li, cj)
          ELSE phase' = "failed" /\ UNCHANGED <<li, cj>>
    /\ UNCHANGED <<run, ghost>>

DeltaLast ==
    /\ phase = "delta_last"
    /\ LET ins == Instruction(<<"delta">>, 1, 0, cj, run.proof_c) IN
       /\ Send(ins)
       /\ IF Sent(ins)
          THEN phase' = "final" /\ li' = 0 /\ cj' = 0
          ELSE phase' = "failed" /\ UNCHANGED <<li, cj>>
    /\ UNCHANGED <<run, ghost>>

\* Client::final_exponentiation: li counts the instructions sent
FinalStep ==
    /\ phase = "final" /\ li < NumFinalSteps
    /\ LET ins == FinalSchedule(li, run.qap) IN
       /\ Send(ins)
       /\ IF Sent(ins)
          THEN /\ phase' = (IF li = NumFinalSteps - 1 THEN "done" ELSE "final")
               /\ li' = li + 1
          ELSE phase' = "failed" /\ UNCHANGED li
    /\ UNCHANGED <<cj, run, ghost>>

---------------------------------------------------------------------------
(* client/src/client.rs: the instructions of one run as a numbered list *)

\* the value of j when the loop of Client::gamma_miller_loop reaches index i
\* (i = 0: after the loop): one for every index passed, one more for every
\* non-zero digit passed
CoeffIndexAt(i) ==
    (Len(ATE_LOOP_COUNT) - 1 - i)
        + Cardinality({k \in i .. Len(ATE_LOOP_COUNT) - 2 : AteAt(k) # 0})

\* the k-th instruction (from 0) of gamma_miller_loop / delta_miller_loop
NumMillerSteps == Len(ATE_LOOP_COUNT)
MillerSchedule(account, t, k, point) ==
    LET i == IF k < NumMillerSteps - 1 THEN Len(ATE_LOOP_COUNT) - 1 - k ELSE 0
    IN  Instruction(<<account>>, t, i, CoeffIndexAt(i), point)

\* the n-th instruction (from 0) of Client::groth16_verify for payloads r
NumRunSteps == 2 * NumMillerSteps + NumFinalSteps
RunSchedule(n, r) ==
    IF n < NumMillerSteps THEN MillerSchedule("gamma", 0, n, r.prepared_input)
    ELSE IF n < 2 * NumMillerSteps
    THEN MillerSchedule("delta", 1, n - NumMillerSteps, r.proof_c)
    ELSE FinalSchedule(n - 2 * NumMillerSteps, r.qap)

---------------------------------------------------------------------------
(* circuit/src/lib.rs: the Miller loop computed in one go *)

ell(f, coeffs, p) == Mul(f, LineValue(coeffs, p))

\* one pass of the loop body, for loop index i, on accumulator and
\* coefficient index st = [f, j]
OfflineBody(p, coeffs, st, i) ==
    LET f1 == IF i # Len(ATE_LOOP_COUNT) - 1 THEN Square(st.f) ELSE st.f
        f2 == ell(f1, coeffs[st.j], p)
    IN  IF AteAt(i - 1) = 1 \/ AteAt(i - 1) = -1
        THEN [f |-> ell(f2, coeffs[st.j + 1], p), j |-> st.j + 2]
        ELSE [f |-> f2, j |-> st.j + 1]

\* the for loop: the passes for loop indexes hi, hi - 1, .., lo in this
\* order, from state st.  The range is halved and the first half's state is
\* computed before the second half starts from it, which keeps the depth of
\* evaluation logarithmic in the number of passes.
RECURSIVE OfflinePasses(_, _, _, _, _)
OfflinePasses(p, coeffs, st, hi, lo) ==
    IF hi = lo THEN OfflineBody(p, coeffs, st, hi)
    ELSE LET mid == (hi + lo + 1) \div 2 IN
         CHOOSE r \in {OfflinePasses(p, coeffs, s, mid - 1, lo) :
                          s \in {OfflinePasses(p, coeffs, st, hi, mid)}} : TRUE

\* q is a fixed G2 element of the verifying key, never zero
offline_miller_loop(p, coeffs, f) ==
    IF p = Infinity THEN f
    ELSE LET r == OfflinePasses(p, coeffs, [f |-> f, j |-> 0],
                                Len(ATE_LOOP_COUNT) - 1, 1)
         IN  ell(ell(r.f, coeffs[r.j], p), coeffs[r.j + 1], p)

\* the ell_coeffs of the prepared gamma and delta elements
GammaCoeffs == [j \in 0 .. NumCoeffs - 1 |-> get_gamma_qef(j)]
DeltaCoeffs == [j \in 0 .. NumCoeffs - 1 |-> get_delta_qef(j)]

---------------------------------------------------------------------------
(* Initial states *)

SlotSeq == <<"gamma", "delta", "final">> \o final_keys
SlotIx(s) == CHOOSE k \in 1 .. Len(SlotSeq) : SlotSeq[k] = s

\* contents a slot can hold when a run starts: the zero bytes of a freshly
\* created account, an encoded value, or bytes that are no encoding
InitBytes == {0, Malformed} \cup {Encode(v) : v \in 0 .. MaxInit}

\* accumulator slots filled from c and y-slots from d: distinct values in
\* distinct slots when c (or d) is the encoding of a non-zero value
Spread(c, s) == IF c \in 1 .. M THEN Encode((Decode(c) + 7 * SlotIx(s)) % M) ELSE c
InitSlots(c, d) ==
    [s \in Slots |-> IF s \in {"gamma", "delta", "final"} THEN Spread(c, s)
                     ELSE Spread(d, s)]

NoInstr == [accounts |-> <<>>, hdr |-> <<>>, input |-> Short]
NoRun == [prepared_input |-> Short, proof_c |-> Short, qap |-> Short, fill |-> <<0, 0>>]

\* groth16_verify: the three payloads of a run, and slots in any state
InitRun ==
    /\ \E c \in InitBytes, d \in InitBytes :
           /\ slots = InitSlots(c, d) /\ pre = InitSlots(c, d)
           /\ \E pi \in 0 .. MaxPoint, pc \in 0 .. MaxPoint, v \in 0 .. MaxInit :
                  run = [prepared_input |-> pi, proof_c |-> pc, qap |-> Encode(v),
                         fill |-> <<c, d>>]
    /\ outcome = "None"
    /\ instr = NoInstr
    /\ phase = "gamma"
    /\ li = Len(ATE_LOOP_COUNT) - 1
    /\ cj = 0
    /\ ghost = 0

NextRun == GammaStep \/ GammaLast \/ DeltaStep \/ DeltaLast \/ FinalStep

\* one verification run of the driver against the contract
SpecRun == InitRun /\ [][NextRun]_vars

---------------------------------------------------------------------------
(* One instruction processed over slots in any state *)

LoopIndexes == {0, 1, 3, 4, 64, 65, 66}
CoeffIndexes == {0, 1, 88, 89, 90, 91}
SubStepIndexes == {0, 1, 62, 63}
Opcodes == (2 .. 17) \cup {255}

\* the accounts the driver passes with opcode t
AccountsOf(t) ==
    CASE t = 0 -> <<"gamma">>
      [] t = 1 -> <<"delta">>
      [] t = 2 -> FinalSchedule(0, Short).accounts
      [] t = 3 -> FinalSchedule(1, Short).accounts
      [] t = 4 -> FinalSchedule(2, Short).accounts
      [] t = 5 -> FinalSchedule(3, Short).accounts
      [] t = 6 -> FinalSchedule(66, Short).accounts
      [] t = 7 -> FinalSchedule(67, Short).accounts
      [] t = 8 -> FinalSchedule(68, Short).accounts
      [] t = 9 -> FinalSchedule(131, Short).accounts
      [] t \in 10 .. 16 -> FinalSchedule(184 + t, Short).accounts
      [] OTHER -> <<>>

\* payloads tried: a point or its absence for a Miller step, a value, bytes
\* that are no value or nothing for a final-exponentiation step
MillerPayloads == (0 .. MaxPoint + 1) \cup {Short}
FinalPayloads == {Short, Malformed, Encode(MaxInit)}

InitInvoke ==
    /\ \E c \in InitBytes, d \in InitBytes :
           slots = InitSlots(c, d) /\ pre = InitSlots(c, d)
    /\ run = NoRun
    /\ outcome = "None"
    /\ instr = NoInstr
    /\ phase = "idle"
    /\ li = 0
    /\ cj = 0
    /\ ghost = 0

Invoke(ins) ==
    /\ Send(ins)
    /\ phase' = "invoked"
    /\ UNCHANGED <<li, cj, run, ghost>>

InvokeMiller ==
    /\ phase = "idle"
    /\ \E a \in {<<"gamma">>, <<"delta">>, <<>>}, t \in {0, 1}, i \in LoopIndexes,
       j \in CoeffIndexes, p \in MillerPayloads :
        Invoke(Instruction(a, t, i, j, p))

InvokeFinal ==
    /\ phase = "idle"
    /\ \E t \in Opcodes, i \in {0} \cup Opcodes, j \in SubStepIndexes, p \in FinalPayloads :
        \E a \in {AccountsOf(t), AccountsOf(i), <<"final">>} :
            Invoke(Instruction(a, t, i, j, p))

\* instruction data shorter than the three header bytes
InvokeShort ==
    /\ phase = "idle"
    /\ \E h \in {<<>>, <<5>>, <<5, 5>>} :
        Invoke([accounts |-> <<"final">>, hdr |-> h, input |-> Short])

Next == InvokeMiller \/ InvokeFinal \/ InvokeShort

Spec == InitInvoke /\ [][Next]_vars

---------------------------------------------------------------------------
(* The final-exponentiation schedule with the loop_index byte set to the   *)
(* opcode, so that final_exponentiation receives the opcode                *)

Direct(ins) == [ins EXCEPT !.hdr = <<ins.hdr[1], ins.hdr[1], ins.hdr[3]>>]

InitDirect ==
    /\ \E c \in {0} \cup {Encode(v) : v \in 0 .. MaxInit}, d \in InitBytes :
           /\ slots = InitSlots(c, d) /\ pre = InitSlots(c, d)
           /\ \E v \in 0 .. MaxInit :
                  run = [NoRun EXCEPT !.qap = Encode(v), !.fill = <<c, d>>]
    /\ outcome = "None"
    /\ instr = NoInstr
    /\ phase = "direct"
    /\ li = 0
    /\ cj = 0
    /\ ghost = Zero

\* ghost keeps the value held in final when easy part 1 starts
DirectStep ==
    /\ phase = "direct" /\ li < NumFinalSteps - 1
    /\ LET ins == Direct(FinalSchedule(li, run.qap)) IN
       /\ Send(ins)
       /\ IF Sent(ins)
          THEN /\ phase' = "direct"
               /\ li' = li + 1
          ELSE phase' = "failed" /\ UNCHANGED li
    /\ ghost' = IF li = 1 THEN Decode(slots["final"]) ELSE ghost
    /\ UNCHANGED <<cj, run>>

\* the verdict step, last
DirectVerdict ==
    /\ phase = "direct" /\ li = NumFinalSteps - 1
    /\ LET ins == Direct(FinalSchedule(li, run.qap)) IN
       /\ Send(ins)
       /\ phase' = (IF Sent(ins) THEN "accepted" ELSE "rejected")
       /\ li' = li + 1
    /\ UNCHANGED <<cj, run, ghost>>

NextDirect == DirectStep \/ DirectVerdict

SpecDirect == InitDirect /\ [][NextDirect]_vars

---------------------------------------------------------------------------
(* Properties of one processed instruction (specification Spec) *)

\* the last instruction had its three header bytes and was processed
Processed == phase = "invoked" /\ Len(instr.hdr) = 3
After == [outcome |-> outcome, slots |-> slots]

\* C1: an instruction whose opcode byte t is in 2..16 performs the operation
\* the opcode table assigns to t, whatever its loop_index byte: outcome and
\* slots are those of operation t applied to the slots before it.
C1_OpcodeSelectsOperation ==
    (Processed /\ OpT(instr) \in 2 .. 16) =>
        After = final_exponentiation(pre, instr.accounts, OpT(instr), OpJ(instr),
                                     instr.input)

\* C3: an opcode byte outside 0..16 is answered with an error and no slot is
\* modified, whatever the loop_index and coeff_index bytes.
C3_UnknownOpcodeIsAnError ==
    (Processed /\ OpT(instr) \notin 0 .. 16) => (outcome # "Ok" /\ slots = pre)

\* a Miller step (opcode 0 or 1) whose payload decodes to point p
MillerStepWith(p) ==
    /\ Processed
    /\ OpT(instr) \in {0, 1}
    /\ PointReadable(instr.input) /\ PointDecode(instr.input) = p

\* C7 as claimed: a Miller step whose payload encodes the point at infinity
\* leaves every slot as it was, for every loop_index and every coeff_index,
\* coeff_index 0 included.
C7_InfinityLeavesAccumulator ==
    MillerStepWith(Infinity) => slots = pre

\* C7 amended: a Miller step whose payload encodes the point at infinity
\* leaves every slot as it was when its coeff_index is not 0; with
\* coeff_index 0 a successful step leaves the accumulator holding the
\* encoding of the identity and every other slot as it was.
C7_InfinityLeavesAccumulatorUnlessFirst ==
    MillerStepWith(Infinity) =>
        IF OpJ(instr) # 0 THEN slots = pre
        ELSE IF outcome = "Ok"
             THEN slots = [pre EXCEPT ![instr.accounts[1]] = Encode(One)]
             ELSE slots = pre

\* C7 witness: a successful step with the point at infinity and a coeff_index
\* other than 0 over an accumulator holding a value other than the identity
C7_Witness ==
    /\ MillerStepWith(Infinity)
    /\ OpJ(instr) = 89
    /\ outcome = "Ok"
    /\ pre[instr.accounts[1]] \notin {0, Encode(One)}

\* the line evaluation the instruction's opcode selects
OnchainEll(f, j, p) ==
    IF OpT(instr) = 0 THEN gamma_onchain_ell(f, j, p) ELSE delta_onchain_ell(f, j, p)

\* a non-trailing Miller step with a non-infinity point that succeeded
SubStepDone ==
    /\ Processed /\ OpT(instr) \in {0, 1}
    /\ PointReadable(instr.input) /\ PointDecode(instr.input) # Infinity
    /\ OpJ(instr) # 89
    /\ outcome = "Ok"

\* what the step is said to leave in the accumulator, given the digit that
\* decides the second line evaluation
SubStepResult(digit) ==
    LET p == PointDecode(instr.input)
        i == OpI(instr)
        j == OpJ(instr)
        f == get_account_data(pre, instr.accounts[1], j)
        f1 == IF i # 64 THEN Square(f) ELSE f
        f2 == OnchainEll(f1, j, p)
    IN  IF digit # 0 THEN OnchainEll(f2, j + 1, p) ELSE f2

\* C8 as claimed: the second line evaluation is multiplied in if and only if
\* the Ate-loop-count digit at position loop_index is +1 or -1.
C8_DigitAtLoopIndex ==
    SubStepDone =>
        slots[instr.accounts[1]] =
            Encode(SubStepResult(IF InAte(OpI(instr)) THEN AteAt(OpI(instr)) ELSE 0))

\* C8 amended: a successful non-trailing Miller step with a non-infinity P
\* squares the accumulator it read (the identity when coeff_index is 0)
\* unless loop_index is 64, multiplies in the line evaluation at coeff_index,
\* and multiplies in the one at coeff_index + 1 if and only if the
\* Ate-loop-count digit at index loop_index - 1 is +1 or -1; no other slot
\* changes.
C8_DigitBelowLoopIndex ==
    SubStepDone =>
        slots = [pre EXCEPT ![instr.accounts[1]] =
                     Encode(SubStepResult(AteAt(OpI(instr) - 1)))]

\* C8 witness: a step whose digit at loop_index - 1 is 0 while the digit at
\* loop_index is not, over an accumulator read from the slot
C8_Witness ==
    /\ SubStepDone
    /\ OpI(instr) = 3 /\ OpJ(instr) = 1
    /\ pre[instr.accounts[1]] \notin {0, Encode(One)}

---------------------------------------------------------------------------
(* Properties of one run of the driver (specification SpecRun) *)

\* the value the verdict step would compare, from the slots as they are
VerdictValue == Mul(Decode(slots["y15"]), Decode(slots["y14"]))
VerdictMatches ==
    /\ Readable(slots["y14"]) /\ Readable(slots["y15"])
    /\ VerdictValue = get_alpha_g1_beta_g2

\* the run is over: every instruction succeeded, or the verdict one failed
VerdictSent == Len(instr.hdr) = 3 /\ OpT(instr) = 16
RunSucceeded == phase = "done"
RunRejected == phase = "failed" /\ VerdictSent

\* C2: the driver's run ends in success if and only if y16 = y15 * y14,
\* computed from the slots the earlier steps left, equals the expected
\* value; it ends in failure when y16 differs.
C2_SuccessIffVerdictMatches ==
    (RunSucceeded \/ RunRejected) => (RunSucceeded <=> VerdictMatches)

\* the trailing step of the loop was the last instruction, and succeeded
GammaLoopJustOver == phase = "delta" /\ li = Len(ATE_LOOP_COUNT) - 1
DeltaLoopJustOver == phase = "final" /\ li = 0

\* C4: after the driver's gamma schedule (loop_index 64 down to 1, then the
\* trailing step with coeff_index 89) for a non-infinity P, whatever the
\* accumulator slot held before, the slot holds the encoding of
\* offline_miller_loop over the same P and coefficients started from the
\* identity; likewise for delta.
C4_MillerScheduleMatchesOffline ==
    /\ (GammaLoopJustOver /\ run.prepared_input # Infinity) =>
           slots["gamma"] =
               Encode(offline_miller_loop(PointDecode(run.prepared_input), GammaCoeffs, One))
    /\ (DeltaLoopJustOver /\ run.proof_c # Infinity) =>
           slots["delta"] =
               Encode(offline_miller_loop(PointDecode(run.proof_c), DeltaCoeffs, One))

\* C4 witness: both loops are over, for two non-infinity points, and the
\* trailing delta step (coeff_index 89) was the last instruction
C4_Witness ==
    /\ phase = "final" /\ li = 0
    /\ run.prepared_input # Infinity /\ run.proof_c # Infinity
    /\ instr.hdr = <<1, 0, 89>>
    /\ run.fill[1] = Malformed

---------------------------------------------------------------------------
(* Properties of the final-exponentiation steps (specification SpecDirect) *)

\* the steps up to and including y15 were applied, all with success
HardPartApplied == phase \in {"direct", "accepted", "rejected"} /\ li >= NumFinalSteps - 1

\* C5: easy part 1 and 2, the y0 sub-steps, y1, y3, the y4 and y6 sub-steps,
\* y8, y9, y11, y13, y14, y15 applied in this order to an invertible f held
\* in final make y15 * y14 equal r^HardExponent for r = f^EasyExponent.
C5_StepsComputeFinalExponentiation ==
    (HardPartApplied /\ Invertible(ghost)) =>
        /\ Readable(slots["y14"]) /\ Readable(slots["y15"])
        /\ VerdictValue = Pow(Pow(ghost, EasyExponent), HardExponent)

\* C5 witness: the steps were applied to an f that is neither zero nor one
C5_Witness ==
    /\ HardPartApplied
    /\ ghost \notin {Zero, One}
    /\ Pow(ghost, EasyExponent) # One

\* the sub-step index of the last instruction when the driver has sent li
\* instructions, the first sub-step being instruction number first
SubStepOf(first) == li - 1 - first

\* conjugate(b^X) after sub-step 62, b^(the digits so far) before
SubResult(b, j) ==
    IF j = 62 THEN Conjugate(Pow(b, NafValue(0, 62))) ELSE Pow(b, NafValue(0, j))

\* C9: for opcodes 5, 8 and 9, after sub-steps 0..j applied in order the
\* result slot holds b^(the integer the digits 0..j give in step order), and
\* after sub-step 62 its conjugate, conjugate(b^X): b is final for y0, y3 for
\* y4 and cyclotomic_square(y4) for y6, and nothing of what the result slot
\* held before sub-step 0 is left in it.
C9_SubStepsComputeConjugatePower ==
    /\ (phase = "direct" /\ li \in 4 .. 66) =>
           slots["y0"] = Encode(SubResult(Decode(slots["final"]), SubStepOf(3)))
    /\ (phase = "direct" /\ li \in 69 .. 131) =>
           slots["y4"] = Encode(SubResult(Decode(slots["y3"]), SubStepOf(68)))
    /\ (phase = "direct" /\ li \in 132 .. 194) =>
           slots["y6"] = Encode(SubResult(CyclotomicSquare(Decode(slots["y4"])),
                                          SubStepOf(131)))

\* C9 witness: the 63 sub-steps of y6 are over, the y-slots having held
\* bytes that are no value when the run started
C9_Witness ==
    /\ phase = "direct" /\ li = 194
    /\ run.fill[2] = Malformed
    /\ Decode(slots["y4"]) \notin {Zero, One}

---------------------------------------------------------------------------
(* A run of the driver during which one slot is overwritten from outside *)

\* a run of the driver over freshly written slots; left alone it ends in success
InitTamper ==
    /\ slots = InitSlots(Encode(One), 0) /\ pre = InitSlots(Encode(One), 0)
    /\ run = [prepared_input |-> MaxPoint, proof_c |-> 1, qap |-> Encode(MaxInit),
              fill |-> <<Encode(One), 0>>]
    /\ outcome = "None"
    /\ instr = NoInstr
    /\ phase = "gamma"
    /\ li = Len(ATE_LOOP_COUNT) - 1
    /\ cj = 0
    /\ ghost = 0

\* between two steps, once: some slot gets a content it did not have
Tamper ==
    /\ ghost = 0
    /\ phase \in {"gamma", "gamma_last", "delta", "delta_last", "final"}
    /\ \E s \in Slots, v \in 0 .. MaxInit :
           /\ slots[s] # Encode(v)
           /\ slots' = [slots EXCEPT ![s] = Encode(v)]
    /\ ghost' = 1
    /\ UNCHANGED <<outcome, instr, pre, phase, li, cj, run>>

NextTamper == NextRun \/ Tamper

SpecTamper == InitTamper /\ [][NextTamper]_vars

\* C6: in a run that would end in verdict success, once the content of a
\* slot was replaced by a different value between two steps before the final
\* comparison, the verdict step fails: the run does not end in success.
C6_TamperedRunIsRejected ==
    ghost = 1 => ~RunSucceeded

---------------------------------------------------------------------------
(* The value of the NAF table (specification SpecNaf) *)

\* natural numbers beyond 32 bits: five limbs in base 10^4, least
\* significant first
Limb == 10 ^ 4
Big(n) == <<n, 0, 0, 0, 0>>

\* the limbs of a + b + c from limb k on, carry c
RECURSIVE AddFrom(_, _, _, _)
AddFrom(a, b, k, c) ==
    IF k > Len(a) THEN <<>>
    ELSE <<(a[k] + b[k] + c) % Limb>> \o AddFrom(a, b, k + 1, (a[k] + b[k] + c) \div Limb)
BigAdd(a, b) == AddFrom(a, b, 1, 0)
BigDouble(a) == BigAdd(a, a)

\* ark_bn254::Parameters::X = 4965661367192848881
X == <<8881, 9284, 3671, 5661, 496>>

\* the sum of the digits with their weights is kept as pos - neg; order is
\* "step" for the order of the sub-steps (double, then add the digit: digit j
\* weighs 2^(62 - j)) and "index" for weights by table index (digit j
\* weighs 2^j)
InitNaf ==
    /\ \E o \in {"step", "index"} :
           ghost = [order |-> o, j |-> 0, pos |-> Big(0), neg |-> Big(0), weight |-> Big(1)]
    /\ slots = InitSlots(0, 0) /\ pre = InitSlots(0, 0)
    /\ run = NoRun
    /\ outcome = "None"
    /\ instr = NoInstr
    /\ phase = "naf"
    /\ li = 0
    /\ cj = 0

\* the digit of sub-step ghost.j, as exp_by_neg_x consumes it
NafStepOrder ==
    /\ phase = "naf" /\ ghost.order = "step" /\ InNAF(ghost.j)
    /\ LET value == NAFAt(ghost.j)
           pos1 == IF ghost.j > 0 THEN BigDouble(ghost.pos) ELSE ghost.pos
           neg1 == IF ghost.j > 0 THEN BigDouble(ghost.neg) ELSE ghost.neg
       IN  ghost' = [ghost EXCEPT
                        !.j = @ + 1,
                        !.pos = IF value > 0 THEN BigAdd(pos1, Big(1)) ELSE pos1,
                        !.neg = IF value < 0 THEN BigAdd(neg1, Big(1)) ELSE neg1]
    /\ UNCHANGED <<slots, outcome, instr, pre, phase, li, cj, run>>

\* the digit at table index ghost.j with weight 2^j
NafIndexOrder ==
    /\ phase = "naf" /\ ghost.order = "index" /\ InNAF(ghost.j)
    /\ LET value == NAFAt(ghost.j)
       IN  ghost' = [ghost EXCEPT
                        !.j = @ + 1,
                        !.pos = IF value > 0 THEN BigAdd(@, ghost.weight) ELSE @,
                        !.neg = IF value < 0 THEN BigAdd(@, ghost.weight) ELSE @,
                        !.weight = BigDouble(@)]
    /\ UNCHANGED <<slots, outcome, instr, pre, phase, li, cj, run>>

NextNaf == NafStepOrder \/ NafIndexOrder

SpecNaf == InitNaf /\ [][NextNaf]_vars

NafSummed(o) == phase = "naf" /\ ghost.order = o /\ ghost.j = Len(NAF)

\* C10 as claimed: the sum over j = 0..62 of NAF[j] * 2^j, j the table index,
\* is -x.
C10_IndexWeightedSumIsMinusX ==
    NafSummed("index") => BigAdd(ghost.pos, X) = ghost.neg

\* C10 amended: the sum over j = 0..62 of NAF[j] * 2^(62 - j) is x: the digit
\* consumed at sub-step j weighs 2^(62 - j), and the table holds x, not -x.
C10_StepWeightedSumIsX ==
    NafSummed("step") => ghost.pos = BigAdd(ghost.neg, X)

\* C10 witness: all 63 digits were consumed in step order, negative ones too
C10_Witness ==
    NafSummed("step") /\ ghost.neg # Big(0)

---------------------------------------------------------------------------
(* Failure outcomes and the combine step (specification Spec) *)

\* the last instruction reached final_exponentiation, which ran operation op
\* (the operation is selected by the loop_index byte, see process_instruction)
Ran(op) == Processed /\ OpT(instr) \notin {0, 1} /\ OpI(instr) = op

\* easy part 1 ran on a slot holding the non-invertible value
EasyPart1OnZero ==
    /\ Ran(3)
    /\ Len(instr.accounts) >= 1
    /\ Readable(pre[instr.accounts[1]])
    /\ Decode(pre[instr.accounts[1]]) = Zero

\* C13: easy part 1 applied to a final slot holding the non-invertible value
\* (zero) fails with an error outcome and leaves final, and every other
\* slot, unchanged: no default value is written.
C13_NonInvertibleFails ==
    EasyPart1OnZero => (outcome # "Ok" /\ slots = pre)

\* C13 witness: easy part 1 ran on a freshly created (all zero) final slot
C13_Witness ==
    /\ EasyPart1OnZero
    /\ instr.accounts = <<"final">>
    /\ outcome = "Panic"

\* the verdict comparison ran on two readable slots and found a mismatch
VerdictMismatch ==
    /\ Ran(16)
    /\ Len(instr.accounts) >= 2
    /\ CanGetAll(pre, instr.accounts, 2)
    /\ Y16(pre, instr.accounts) # get_alpha_g1_beta_g2

\* the outcomes reported for a slot that does not decode, a payload that does
\* not decode, a non-invertible element and an unknown opcode
OtherFailureOutcomes ==
    { hard_part_y16([pre EXCEPT ![instr.accounts[1]] = Malformed], instr.accounts).outcome,
      prepare_final_data(pre, <<"gamma", "delta", "final">>, Malformed).outcome,
      easy_part1([pre EXCEPT !["final"] = 0], <<"final">>).outcome,
      final_exponentiation(pre, instr.accounts, 17, 0, Short).outcome }

\* C14: the outcome reported for a verdict step whose comparison fails is
\* different from the outcomes reported for a slot or payload decode
\* failure, for a non-invertible element and for an unknown opcode.
C14_VerdictMismatchIsDistinguishable ==
    VerdictMismatch => outcome \notin OtherFailureOutcomes

\* an instruction with opcode 2 over the three accounts of the combine step,
\* all of which decode, with a payload that decodes
CombineSent ==
    /\ Processed /\ OpT(instr) = 2
    /\ instr.accounts = <<"gamma", "delta", "final">>
    /\ instr.input # Short /\ Readable(instr.input)
    /\ Readable(pre["gamma"]) /\ Readable(pre["delta"])

\* C18: the combine step (opcode 2) sets final to payload * gamma * delta
\* with gamma and delta read from storage whatever the index bytes are,
\* overwrites whatever final held, and leaves gamma and delta unchanged.
C18_CombineSetsFinal ==
    CombineSent =>
        /\ outcome = "Ok"
        /\ slots = [pre EXCEPT !["final"] =
                        Encode(Mul(Mul(Decode(instr.input), Decode(pre["gamma"])),
                                   Decode(pre["delta"])))]

\* the slots passed to the last instruction, and the storage with every
\* other slot holding other bytes
Passed == {instr.accounts[k] : k \in 1 .. Len(instr.accounts)}
Scrambled == [a \in Slots |-> IF a \in Passed THEN pre[a] ELSE Malformed]

\* C20: the effect of a step is a function of its opcode, its index bytes,
\* its payload and the contents of the slots passed to it: its outcome and
\* what it leaves in the passed slots are the same when every other slot
\* holds something else, and it leaves every other slot as it was.
C20_StepIsFunctionOfPassedSlots ==
    Processed =>
        LET r == process_instruction(Scrambled, instr.accounts, instr) IN
        /\ r.outcome = outcome
        /\ \A a \in Passed : r.slots[a] = slots[a]
        /\ \A a \in Slots \ Passed : slots[a] = pre[a] /\ r.slots[a] = Malformed

\* C20 witness: a step that read two passed slots and wrote a third, other
\* slots holding values of their own
C20_Witness ==
    /\ Ran(2) /\ outcome = "Ok"
    /\ instr.accounts = <<"y3", "y4", "y6", "y8">>
    /\ slots # pre
    /\ pre["gamma"] \notin {0, Malformed}

---------------------------------------------------------------------------
(* The order of the driver's steps (specifications SpecRun, SpecRunAnyPayload) *)

\* the number of instructions of the run that succeeded so far
Position ==
    CASE phase = "gamma" -> Len(ATE_LOOP_COUNT) - 1 - li
      [] phase = "gamma_last" -> NumMillerSteps - 1
      [] phase = "delta" -> NumMillerSteps + Len(ATE_LOOP_COUNT) - 1 - li
      [] phase = "delta_last" -> 2 * NumMillerSteps - 1
      [] phase = "final" -> 2 * NumMillerSteps + li
      [] phase = "done" -> NumRunSteps
      [] OTHER -> 0 - 1

\* a run as a list of blocks <<opcodes, number of steps>>
RECURSIVE OpcodesAt(_, _)
OpcodesAt(blocks, n) ==
    IF blocks = <<>> \/ n < 0 THEN {}
    ELSE IF n < Head(blocks)[2] THEN Head(blocks)[1]
    ELSE OpcodesAt(Tail(blocks), n - Head(blocks)[2])
RECURSIVE Total(_)
Total(blocks) == IF blocks = <<>> THEN 0 ELSE Head(blocks)[2] + Total(Tail(blocks))

HardPartBlocks ==
    << <<{5}, 63>>, <<{6}, 1>>, <<{7}, 1>>, <<{8}, 63>>, <<{9}, 63>>, <<{10}, 1>>,
       <<{11}, 1>>, <<{12}, 1>>, <<{13}, 1>>, <<{14}, 1>>, <<{15}, 1>>, <<{16}, 1>> >>
ClaimedBlocks == << <<{0}, 89>>, <<{1}, 89>>, <<{2, 3, 4}, 2>> >> \o HardPartBlocks
IssuedBlocks ==
    << <<{0}, 65>>, <<{1}, 65>>, <<{2}, 1>>, <<{3}, 1>>, <<{4}, 1>> >> \o HardPartBlocks

\* C12 as claimed: a run is 89 gamma steps, 89 delta steps, the combine/easy
\* part in 2 steps, 63 y0 sub-steps, y1, y3, 63 y4 sub-steps, 63 y6
\* sub-steps, y8, y9, y11, y13, y14, y15 and the verdict, in this order.
C12_ClaimedStepCounts ==
    [][/\ OpT(instr') \in OpcodesAt(ClaimedBlocks, Position)
       /\ (phase' = "done" => Position' = Total(ClaimedBlocks))]_vars

\* C12 amended: a run is, in this order, 65 gamma steps (loop_index 64 down
\* to 1, then the trailing step), 65 delta steps, the combine step, easy part
\* 1 and 2, 63 y0 sub-steps, y1, y3, 63 y4 sub-steps, 63 y6 sub-steps, y8,
\* y9, y11, y13, y14, y15 and the verdict, 331 instructions in all: the
\* instruction issued after n successful ones is the n-th of the list, and no
\* other instruction is issued, none skipped or reordered.
C12_RunIsTheFixedSchedule ==
    [][/\ instr' = RunSchedule(Position, run)
       /\ OpT(instr') \in OpcodesAt(IssuedBlocks, Position)
       /\ (phase' # "failed" => Position' = Position + 1)
       /\ (phase' = "done" => Position' = Total(IssuedBlocks))]_vars

\* C12 witness: the run is over, the verdict instruction was its last
C12_Witness ==
    /\ phase = "done"
    /\ instr.hdr = <<16, 0, 0>>
    /\ run.prepared_input # Infinity

\* groth16_verify with payloads of any bytes, unreadable points included
InitRunAnyPayload ==
    /\ \E c \in InitBytes :
           /\ slots = InitSlots(c, 0) /\ pre = InitSlots(c, 0)
           /\ \E pi \in 0 .. MaxPoint + 1, pc \in 0 .. MaxPoint + 1, v \in 0 .. MaxInit :
                  run = [prepared_input |-> pi, proof_c |-> pc, qap |-> Encode(v),
                         fill |-> <<c, 0>>]
    /\ outcome = "None"
    /\ instr = NoInstr
    /\ phase = "gamma"
    /\ li = Len(ATE_LOOP_COUNT) - 1
    /\ cj = 0
    /\ ghost = 0

SpecRunAnyPayload == InitRunAnyPayload /\ [][NextRun]_vars

\* C15: failure is terminal: once a step of a run has failed the driver
\* issues no further step and retries none, and the verdict instruction is
\* issued only when every earlier instruction of the run has succeeded.
C15_FailureIsTerminal ==
    [][/\ outcome \in {"None", "Ok"}
       /\ phase # "failed"
       /\ (OpT(instr') = 16 => Position = NumRunSteps - 1)]_vars

\* C15 witness: the first delta step failed after the whole gamma loop
C15_Witness ==
    /\ phase = "failed"
    /\ outcome = "Panic"
    /\ instr.hdr = <<1, 64, 0>>

---------------------------------------------------------------------------
(* Which slots the steps of a run read and write (specification SpecReads) *)

Result(s, ins) == process_instruction(s, ins.accounts, ins)

\* contents put into a slot to see whether a step looks at it
ProbeBytes == {Malformed, Encode(MaxInit + 1), Encode(MaxInit + 2)}

\* the slots instruction ins reads over storage s: those whose content
\* makes a difference to the outcome, to another slot, or to what the step
\* leaves in the slot itself
ReadsOf(s, ins) ==
    {a \in Slots : \E b \in ProbeBytes :
        LET r == Result(s, ins)
            r2 == Result([s EXCEPT ![a] = b], ins)
        IN  \/ r2.outcome # r.outcome
            \/ \E x \in Slots \ {a} : r2.slots[x] # r.slots[x]
            \/ (r2.slots[a] # r.slots[a] /\ r2.slots[a] # b)}

\* the slots instruction ins writes over storage s: those that do not keep
\* what they held
WritesOf(s, ins) ==
    {a \in Slots : \E b \in {s[a]} \cup ProbeBytes :
        LET r2 == Result([s EXCEPT ![a] = b], ins)
        IN  r2.outcome = "Ok" /\ r2.slots[a] # b}

\* a run over slots in any state; li counts the instructions that succeeded,
\* ghost keeps the slots written and read so far and those read too early
InitReads ==
    /\ \E c \in {0, Malformed, Encode(MaxInit)}, d \in {0, Encode(MaxInit)} :
           /\ slots = InitSlots(c, d) /\ pre = InitSlots(c, d)
           /\ \E pi \in 0 .. MaxPoint, pc \in 0 .. MaxPoint :
                  run = [prepared_input |-> pi, proof_c |-> pc, qap |-> Encode(MaxInit),
                         fill |-> <<c, d>>]
    /\ outcome = "None"
    /\ instr = NoInstr
    /\ phase = "run"
    /\ li = 0
    /\ cj = 0
    /\ ghost = [written |-> {}, read |-> {}, early |-> {}]

\* the driver sends its next instruction
IssueStep ==
    /\ phase = "run" /\ li < NumRunSteps
    /\ LET ins == RunSchedule(li, run) IN
       /\ Send(ins)
       /\ IF Sent(ins)
          THEN /\ phase' = (IF li = NumRunSteps - 1 THEN "done" ELSE "run")
               /\ li' = li + 1
               /\ ghost' = [written |-> ghost.written \cup WritesOf(slots, ins),
                            read |-> ghost.read \cup ReadsOf(slots, ins),
                            early |-> ghost.early \cup (ReadsOf(slots, ins) \ ghost.written)]
          ELSE /\ phase' = "failed"
               /\ li' = li
               /\ ghost' = [ghost EXCEPT
                               !.read = @ \cup ReadsOf(slots, ins),
                               !.early = @ \cup (ReadsOf(slots, ins) \ ghost.written)]
    /\ UNCHANGED <<cj, run>>

NextReads == IssueStep

SpecReads == InitReads /\ [][NextReads]_vars

\* C11: in the step sequence of one run every slot a step reads from
\* storage was written by an earlier step of the same run (an accumulator
\* read at index 0 is replaced by the identity and is not read).
C11_NoReadBeforeWrite ==
    ghost.early = {}

\* C11 witness: a whole run over slots that held other values, in which the
\* accumulators were written and read
C11_Witness ==
    /\ phase = "done"
    /\ {"gamma", "delta"} \subseteq ghost.read
    /\ {"gamma", "delta"} \subseteq ghost.written
    /\ run.fill[1] = Encode(MaxInit)

---------------------------------------------------------------------------
(* The two Miller loops of one run interleaved (specification SpecInterleave) *)

\* li counts the gamma steps done and cj the delta steps done
InitInterleave ==
    /\ \E c \in {0, Malformed, Encode(MaxInit)} :
           /\ slots = InitSlots(c, 0) /\ pre = InitSlots(c, 0)
           /\ \E pi \in 0 .. MaxPoint, pc \in 0 .. MaxPoint :
                  run = [prepared_input |-> pi, proof_c |-> pc, qap |-> Encode(MaxInit),
                         fill |-> <<c, 0>>]
    /\ outcome = "None"
    /\ instr = NoInstr
    /\ phase = "miller"
    /\ li = 0
    /\ cj = 0
    /\ ghost = 0

\* the next instruction of gamma_miller_loop
GammaNext ==
    /\ phase = "miller" /\ li < NumMillerSteps
    /\ LET ins == MillerSchedule("gamma", 0, li, run.prepared_input) IN
       /\ Send(ins)
       /\ IF Sent(ins) THEN phase' = "miller" /\ li' = li + 1
          ELSE phase' = "failed" /\ li' = li
    /\ UNCHANGED <<cj, run, ghost>>

\* the next instruction of delta_miller_loop
DeltaNext ==
    /\ phase = "miller" /\ cj < NumMillerSteps
    /\ LET ins == MillerSchedule("delta", 1, cj, run.proof_c) IN
       /\ Send(ins)
       /\ IF Sent(ins) THEN phase' = "miller" /\ cj' = cj + 1
          ELSE phase' = "failed" /\ cj' = cj
    /\ UNCHANGED <<li, run, ghost>>

NextInterleave == GammaNext \/ DeltaNext

SpecInterleave == InitInterleave /\ [][NextInterleave]_vars

\* the other accumulator of a Miller step
OtherAccumulator == IF OpT(instr) = 0 THEN "delta" ELSE "gamma"

\* C17: a gamma step neither reads nor writes the delta slot and a delta
\* step neither reads nor writes the gamma slot, and under every
\* interleaving of the two step sequences both accumulators end with the
\* values the loops give when run one after the other, which are those of
\* offline_miller_loop (C4).
C17_MillerLoopsAreIndependent ==
    /\ Len(instr.hdr) = 3 =>
           /\ slots[OtherAccumulator] = pre[OtherAccumulator]
           /\ \A b \in ProbeBytes :
                  Result([pre EXCEPT ![OtherAccumulator] = b], instr) =
                      [outcome |-> outcome, slots |-> [slots EXCEPT ![OtherAccumulator] = b]]
    /\ (phase = "miller" /\ li = NumMillerSteps) =>
           slots["gamma"] =
               Encode(offline_miller_loop(PointDecode(run.prepared_input), GammaCoeffs, One))
    /\ (phase = "miller" /\ cj = NumMillerSteps) =>
           slots["delta"] =
               Encode(offline_miller_loop(PointDecode(run.proof_c), DeltaCoeffs, One))

\* C17 witness: both loops are over, the last gamma step coming after the
\* last delta step, for two points that are not the point at infinity
C17_Witness ==
    /\ phase = "miller" /\ li = NumMillerSteps /\ cj = NumMillerSteps
    /\ instr.hdr = <<0, 0, 89>>
    /\ run.prepared_input # Infinity /\ run.proof_c # Infinity

---------------------------------------------------------------------------
(* A run over slots left in any state beside the same run over freshly     *)
(* created slots (specification SpecRestart)                               *)

\* the accounts check_account has just created hold zero bytes
FreshSlots == [s \in Slots |-> 0]

\* slots holds what earlier runs left, ghost the freshly created slots of
\* the run it is compared with; li is the position of both runs
InitRestart ==
    /\ \E c \in {0, Malformed, Encode(MaxInit)}, d \in {0, Encode(MaxInit)} :
           /\ slots = InitSlots(c, d) /\ pre = InitSlots(c, d)
           /\ \E pi \in 0 .. MaxPoint, pc \in 0 .. MaxPoint, v \in 0 .. MaxInit :
                  run = [prepared_input |-> pi, proof_c |-> pc, qap |-> Encode(v),
                         fill |-> <<c, d>>]
    /\ outcome = "None"
    /\ instr = NoInstr
    /\ phase = "run"
    /\ li = 0
    /\ cj = 0
    /\ ghost = [slots |-> FreshSlots, outcome |-> "None"]

\* both runs send the next instruction of groth16_verify; a run whose
\* instruction fails ends there
RestartStep ==
    /\ phase = "run" /\ li < NumRunSteps
    /\ LET ins == RunSchedule(li, run)
           fresh == Result(ghost.slots, ins)
       IN  /\ Send(ins)
           /\ ghost' = fresh
           /\ phase' = IF ~Sent(ins) \/ fresh.outcome # "Ok" THEN "failed"
                       ELSE IF li = NumRunSteps - 1 THEN "done" ELSE "run"
           /\ li' = li + 1
    /\ UNCHANGED <<cj, run>>

NextRestart == RestartStep

SpecRestart == InitRestart /\ [][NextRestart]_vars

\* the slots passed to some instruction of the run
UsedSlots ==
    {"gamma", "delta"} \cup
    UNION {{FinalSchedule(k, Short).accounts[n] :
                n \in 1 .. Len(FinalSchedule(k, Short).accounts)} :
           k \in 0 .. NumFinalSteps - 1}

\* C19: the full step sequence executed over slots left in any state ends
\* with the same verdict and, in every slot the run is passed, the same
\* value as the same sequence executed over freshly created slots.
C19_RestartGivesTheFreshResult ==
    /\ outcome = ghost.outcome
    /\ phase = "done" => \A s \in UsedSlots : slots[s] = ghost.slots[s]

---------------------------------------------------------------------------
(* Two runs of two payers over one storage (specification SpecTwoRuns)     *)

Payers == {1, 2}

\* mutant: the address does not depend on the payer
check_account_IgnoresPayer(payer, seed) == <<1, seed>>

\* Client::check_account: the address of an account is derived from the
\* payer's key and the seed, so two payers get two accounts for one seed
check_account(payer, seed) == <<payer, seed>>

\* the instruction a payer sends: the accounts are its own
OwnedBy(payer, ins) ==
    [ins EXCEPT !.accounts = [n \in 1 .. Len(ins.accounts) |->
                                  check_account(payer, ins.accounts[n])]]

\* the storage of both payers, each payer's accounts in any state
TwoStores(c1, c2) ==
    [a \in Payers \X Slots |-> IF a[1] = 1 THEN InitSlots(c1, c1)[a[2]]
                               ELSE InitSlots(c2, c2)[a[2]]]

\* li is the position of payer 1's run and cj that of payer 2's run; ghost
\* keeps, for each run, how far it is, what its last instruction returned,
\* and the storage and the return of the same run executed alone
InitTwoRuns ==
    /\ \E c \in {Encode(MaxInit)}, p \in {Infinity, MaxPoint} :
           /\ slots = TwoStores(c, Malformed) /\ pre = TwoStores(c, Malformed)
           /\ run = <<[prepared_input |-> p, proof_c |-> MaxPoint,
                       qap |-> Encode(MaxInit), fill |-> <<c, c>>],
                      [prepared_input |-> MaxPoint - 1, proof_c |-> p,
                       qap |-> Encode(0), fill |-> <<Malformed, Malformed>>]>>
           /\ ghost = [status |-> <<"run", "run">>,
                       got |-> <<"None", "None">>,
                       alone |-> <<TwoStores(c, Malformed), TwoStores(c, Malformed)>>,
                       verdict |-> <<"None", "None">>]
    /\ outcome = "None"
    /\ instr = NoInstr
    /\ phase = "two"
    /\ li = 0
    /\ cj = 0

\* the run of one payer sends its next instruction
RunStep(payer, n) ==
    /\ phase = "two" /\ ghost.status[payer] = "run"
    /\ LET ins == OwnedBy(payer, RunSchedule(n, run[payer]))
           single == Result(ghost.alone[payer], ins)
           status == IF ~Sent(ins) THEN "failed"
                     ELSE IF n = NumRunSteps - 1 THEN "done" ELSE "run"
       IN  /\ Send(ins)
           /\ ghost' = [ghost EXCEPT !.status[payer] = status,
                                     !.got[payer] = Result(slots, ins).outcome,
                                     !.alone[payer] = single.slots,
                                     !.verdict[payer] = single.outcome]
           /\ phase' = IF status # "run" /\ ghost.status[3 - payer] # "run"
                       THEN "over" ELSE "two"
    /\ UNCHANGED run

Run1Step == RunStep(1, li) /\ li' = li + 1 /\ UNCHANGED cj

Run2Step == RunStep(2, cj) /\ cj' = cj + 1 /\ UNCHANGED li

NextTwoRuns == Run1Step \/ Run2Step

SpecTwoRuns == InitTwoRuns /\ [][NextTwoRuns]_vars

\* C16: under every interleaving of the steps of two runs over disjoint
\* slot sets, each step returns what it returns when its run executes
\* alone and leaves in every slot of its run the value it leaves then, so
\* each run ends with the slots and the verdict of the run executed alone.
C16_DisjointRunsDoNotInteract ==
    \A payer \in Payers :
        /\ ghost.got[payer] = ghost.verdict[payer]
        /\ \A s \in Slots :
               slots[check_account(payer, s)] = ghost.alone[payer][check_account(payer, s)]

\* C16 witness: both runs are over, payer 1's last step coming after payer
\* 2's, and the two runs left different values in their accumulators
C16_Witness ==
    /\ phase = "over"
    /\ li = NumRunSteps /\ cj = NumRunSteps
    /\ instr.accounts[1][1] = 1
    /\ slots[check_account(1, "gamma")] # slots[check_account(2, "gamma")]
    /\ slots[check_account(1, "delta")] # slots[check_account(2, "delta")]

---------------------------------------------------------------------------
(* Re-issuing the step applied last (specification SpecRun) *)

\* C21: re-issuing the step of the run that was applied last, with the same
\* opcode, index bytes, payload and slots, is answered like the first
\* application and leaves every slot with the value it had after it.
C21_StepsAreReplayable ==
    (outcome = "Ok" /\ Len(instr.hdr) = 3) =>
        Result(slots, instr) = [outcome |-> "Ok", slots |-> slots]

---------------------------------------------------------------------------
(* A value written to a slot and read back (specification SpecCodec) *)

\* the values written: zero, one, the powers of g up to MaxInit, the last one
CodecValues == {Zero, One, M - 1} \cup (1 .. MaxInit)

InitCodec ==
    /\ \E c \in {0, Malformed}, d \in {0, Malformed, Encode(MaxInit)} :
           slots = InitSlots(c, d) /\ pre = InitSlots(c, d)
    /\ run = NoRun
    /\ outcome = "None"
    /\ instr = NoInstr
    /\ phase = "codec"
    /\ li = 0
    /\ cj = 0
    /\ ghost = [put |-> Zero, got |-> Zero]

\* put_account_data: a step ends by writing the value it computed
WriteSlot ==
    /\ phase = "codec"
    /\ \E account \in Slots, v \in CodecValues :
           /\ slots' = put_account_data(slots, account, v)
           /\ instr' = [NoInstr EXCEPT !.accounts = <<account>>]
           /\ ghost' = [ghost EXCEPT !.put = v]
    /\ pre' = slots
    /\ outcome' = "Ok"
    /\ phase' = "written"
    /\ UNCHANGED <<li, cj, run>>

\* get_account_data with a non-zero index: a later step reads the slot
ReadSlot ==
    /\ phase = "written"
    /\ \E j \in {1, 62, 89} :
           /\ cj' = j
           /\ IF CanGet(slots, instr.accounts[1], j)
              THEN /\ ghost' = [ghost EXCEPT
                                   !.got = get_account_data(slots, instr.accounts[1], j)]
                   /\ outcome' = "Ok"
              ELSE /\ ghost' = ghost
                   /\ outcome' = "Panic"
    /\ phase' = "read"
    /\ UNCHANGED <<slots, pre, instr, li, run>>

NextCodec == WriteSlot \/ ReadSlot

SpecCodec == InitCodec /\ [][NextCodec]_vars

---------------------------------------------------------------------------
(* The final slot during the hard part (specification SpecDirect) *)

\* the two easy-part steps were applied, with success
EasyPartApplied == phase \in {"direct", "accepted", "rejected", "failed"} /\ li >= 3

\* C23: after easy-part step 2 no hard-part step modifies the final slot:
\* until the verdict it holds the easy-part result f^((q^6 - 1)(q^2 + 1)),
\* and this is what every y0 sub-step and the y11 and y15 steps read.
C23_HardPartKeepsFinal ==
    EasyPartApplied =>
        /\ slots["final"] = Encode(Pow(ghost, EasyExponent))
        /\ (li >= 4 /\ outcome = "Ok" /\ OpI(instr) \in {5, 12, 15}) =>
               /\ pre["final"] = Encode(Pow(ghost, EasyExponent))
               /\ "final" \in ReadsOf(pre, instr)

\* C23 witness: the y15 step, the last one to read final, was applied to an
\* easy-part result other than one
C23_Witness ==
    /\ phase = "direct" /\ li = NumFinalSteps - 1
    /\ OpI(instr) = 15 /\ outcome = "Ok"
    /\ Decode(slots["final"]) \notin {Zero, One}

---------------------------------------------------------------------------
(* The line evaluations of the two Miller loops (specification SpecLines) *)

\* the coefficient indices a Miller step evaluates, in order
\* (sub_gamma_miller_loop / final_gamma_miller_loop, and the delta ones)
LinesOf(p, i, j) ==
    IF p = Infinity THEN <<>>
    ELSE IF j = 89 THEN <<j, j + 1>>
    ELSE IF AteAt(i - 1) = 1 \/ AteAt(i - 1) = -1 THEN <<j, j + 1>>
    ELSE <<j>>

\* the payloads of initialize() are points of a proof, not the point at
\* infinity; ghost lists the coefficient indices evaluated so far in the
\* loop the last instruction belongs to
InitLines ==
    /\ \E c \in {0, Malformed, Encode(MaxInit)} :
           /\ slots = InitSlots(c, 0) /\ pre = InitSlots(c, 0)
           /\ \E pi \in 1 .. MaxPoint, pc \in 1 .. MaxPoint :
                  run = [prepared_input |-> pi, proof_c |-> pc, qap |-> Encode(MaxInit),
                         fill |-> <<c, 0>>]
    /\ outcome = "None"
    /\ instr = NoInstr
    /\ phase = "gamma"
    /\ li = Len(ATE_LOOP_COUNT) - 1
    /\ cj = 0
    /\ ghost = <<>>

LoopOpcode == IF phase \in {"gamma", "gamma_last"} THEN 0 ELSE 1
LoopAccount == IF LoopOpcode = 0 THEN "gamma" ELSE "delta"
LoopPoint == IF LoopOpcode = 0 THEN run.prepared_input ELSE run.proof_c

\* the loop body of Client::gamma_miller_loop / delta_miller_loop
LinesLoopStep ==
    /\ phase \in {"gamma", "delta"} /\ li >= 1
    /\ LET ins == Instruction(<<LoopAccount>>, LoopOpcode, li, cj, LoopPoint)
           before == IF li = Len(ATE_LOOP_COUNT) - 1 THEN <<>> ELSE ghost
       IN  /\ Send(ins)
           /\ IF Sent(ins)
              THEN /\ phase' = (IF li > 1 THEN phase
                                ELSE IF phase = "gamma" THEN "gamma_last" ELSE "delta_last")
                   /\ li' = li - 1
                   /\ cj' = NextCoeff(li, cj)
                   /\ ghost' = before \o LinesOf(PointDecode(LoopPoint), li, cj)
              ELSE phase' = "failed" /\ UNCHANGED <<li, cj, ghost>>
    /\ UNCHANGED run

\* the instruction after the loop
LinesLoopLast ==
    /\ phase \in {"gamma_last", "delta_last"}
    /\ LET ins == Instruction(<<LoopAccount>>, LoopOpcode, 0, cj, LoopPoint) IN
       /\ Send(ins)
       /\ IF Sent(ins)
          THEN /\ phase' = (IF phase = "gamma_last" THEN "delta" ELSE "final")
               /\ li' = Len(ATE_LOOP_COUNT) - 1
               /\ cj' = 0
               /\ ghost' = ghost \o LinesOf(PointDecode(LoopPoint), 0, cj)
          ELSE phase' = "failed" /\ UNCHANGED <<li, cj, ghost>>
    /\ UNCHANGED run

NextLines == LinesLoopStep \/ LinesLoopLast

SpecLines == InitLines /\ [][NextLines]_vars

\* the accumulator after the line evaluations at the indices lines
WithLines(f, lines, p) ==
    IF Len(lines) = 0 THEN f
    ELSE IF Len(lines) = 1 THEN OnchainEll(f, lines[1], p)
    ELSE OnchainEll(OnchainEll(f, lines[1], p), lines[2], p)

\* C24: in the driver's Miller schedule the coeff_index of every step is
\* the number of line evaluations the earlier steps of the loop multiplied
\* into the accumulator, the step multiplies in the next one or two, the
\* trailing step is issued with coeff_index 89, and over the whole loop the
\* indices 0..90 are evaluated once each, in increasing order.
C24_CoeffIndexCountsLines ==
    /\ phase # "failed"
    /\ Len(instr.hdr) = 3 =>
           LET p == PointDecode(instr.input)
               lines == LinesOf(p, OpI(instr), OpJ(instr))
               f == get_account_data(pre, instr.accounts[1], OpJ(instr))
               f1 == IF OpJ(instr) = 89 \/ OpI(instr) = Len(ATE_LOOP_COUNT) - 1
                     THEN f ELSE Square(f)
           IN  /\ OpJ(instr) = Len(ghost) - Len(lines)
               /\ ghost = [k \in 1 .. Len(ghost) |-> k - 1]
               /\ slots[instr.accounts[1]] = Encode(WithLines(f1, lines, p))
               /\ OpI(instr) = 0 => (OpJ(instr) = 89 /\ Len(ghost) = 91)

\* C24 witness: the delta loop is over, its trailing step having evaluated
\* the indices 89 and 90
C24_Witness ==
    /\ phase = "final"
    /\ instr.hdr = <<1, 0, 89>>
    /\ ghost[90] = 89 /\ ghost[91] = 90
    /\ run.fill[1] = Malformed

---------------------------------------------------------------------------
(* The slot a step of the run writes (specification SpecRun) *)

\* the last slot in the list passed with the last instruction
LastPassed == instr.accounts[Len(instr.accounts)]

\* C25: every successful step of the run leaves a written value, an
\* encoding, in the last slot of the list passed to it and every other slot
\* as it was; the verdict step (opcode 16) leaves every slot as it was.
C25_StepWritesItsLastSlot ==
    (Len(instr.hdr) = 3 /\ outcome = "Ok") =>
        IF OpT(instr) = 16 THEN slots = pre
        ELSE /\ \A a \in Slots \ {LastPassed} : slots[a] = pre[a]
             /\ Readable(slots[LastPassed])

---------------------------------------------------------------------------
(* Instructions that fail (specification Spec) *)

\* C26: a step that fails leaves every slot exactly as it was before the
\* step, whatever makes it fail: slot contents or a payload that do not
\* decode, a payload or instruction data that are too short, too few slots,
\* a non-invertible final, a sub-step index of 63 or more in hard_part_y0,
\* hard_part_y4 or hard_part_y6, a verdict mismatch; and these last two do
\* make the step fail.
C26_FailedStepChangesNothing ==
    /\ (phase = "invoked" /\ outcome # "Ok") => slots = pre
    /\ (phase = "invoked" /\ Len(instr.hdr) < 3) => outcome # "Ok"
    /\ ((Ran(5) \/ Ran(8) \/ Ran(9)) /\ OpJ(instr) >= 63) => outcome # "Ok"
    /\ VerdictMismatch => outcome # "Ok"

\* C26 witness: hard_part_y0 ran with sub-step index 63 on two slots that
\* hold values, and failed
C26_Witness ==
    /\ Ran(5) /\ OpJ(instr) = 63
    /\ instr.accounts = <<"final", "y0">>
    /\ Decode(pre["final"]) \notin {Zero, One} /\ Decode(pre["y0"]) \notin {Zero, One}
    /\ Readable(pre["final"]) /\ Readable(pre["y0"])
    /\ outcome = "Panic"

---------------------------------------------------------------------------
(* The accounts of the final-exponentiation steps (specification SpecDirect) *)

\* the accounts operation t takes from the iterator, in order, under the
\* names the operation gives them
Takes(t) ==
    CASE t = 2 -> <<"gamma", "delta", "final">>
      [] t \in {3, 4} -> <<"final">>
      [] t = 5 -> <<"final", "y0">>
      [] t = 6 -> <<"y0", "y1">>
      [] t = 7 -> <<"y0", "y3">>
      [] t = 8 -> <<"y3", "y4">>
      [] t = 9 -> <<"y4", "y6">>
      [] t = 10 -> <<"y3", "y4", "y6", "y8">>
      [] t = 11 -> <<"y1", "y8", "y9">>
      [] t = 12 -> <<"y4", "y8", "final", "y11">>
      [] t = 13 -> <<"y9", "y11", "y13">>
      [] t = 14 -> <<"y8", "y13", "y14">>
      [] t = 15 -> <<"y9", "final", "y15">>
      [] t = 16 -> <<"y14", "y15">>

\* what operation t computes, written on the slots of those names
ValueByName(s, t, j, input) ==
    LET D(n) == Decode(s[n])
        Acc(n) == IF j = 0 THEN One ELSE D(n)
        Last(v) == IF j = 62 THEN Conjugate(v) ELSE v
    IN  CASE t = 2 -> Mul(Mul(Decode(input), D("gamma")), D("delta"))
          [] t = 3 -> Mul(Conjugate(D("final")), Inverse(D("final")))
          [] t = 4 -> Mul(FrobeniusMap(D("final"), 2), D("final"))
          [] t = 5 -> Last(exp_by_neg_x(D("final"), Conjugate(D("final")), Acc("y0"), j))
          [] t = 6 -> CyclotomicSquare(D("y0"))
          [] t = 7 -> cal_y3(D("y0"))
          [] t = 8 -> Last(exp_by_neg_x(D("y3"), Conjugate(D("y3")), Acc("y4"), j))
          [] t = 9 -> LET y5 == CyclotomicSquare(D("y4"))
                      IN  Last(exp_by_neg_x(y5, Conjugate(y5), Acc("y6"), j))
          [] t = 10 -> Mul(Mul(Conjugate(D("y6")), D("y4")), Conjugate(D("y3")))
          [] t = 11 -> Mul(D("y8"), D("y1"))
          [] t = 12 -> Mul(Mul(D("y8"), D("y4")), D("final"))
          [] t = 13 -> Mul(FrobeniusMap(D("y9"), 1), D("y11"))
          [] t = 14 -> Mul(FrobeniusMap(D("y8"), 2), D("y13"))
          [] t = 15 -> FrobeniusMap(Mul(Conjugate(D("final")), D("y9")), 3)

\* the positions in the schedule of the instructions with opcode t
StepsWith(t) == {k \in 0 .. NumFinalSteps - 1 : OpT(FinalSchedule(k, Short)) = t}

\* C27: for every final-exponentiation step the driver issues, the slots it
\* passes are, in order, the slots the step function of its opcode takes,
\* so that the function computes on the slots it names; and the sub-step
\* indices sent for opcodes 5, 8, 9 run over 0..62 in increasing order.
C27_DriverPassesTheSlotsTaken ==
    /\ (Len(instr.hdr) = 3 /\ phase # "failed") =>
           /\ instr.accounts = Takes(OpT(instr))
           /\ OpT(instr) # 16 =>
                  slots = [pre EXCEPT ![Takes(OpT(instr))[Len(Takes(OpT(instr)))]] =
                               Encode(ValueByName(pre, OpT(instr), OpJ(instr), instr.input))]
    /\ \A t \in {5, 8, 9} :
           LET first == CHOOSE k \in StepsWith(t) : \A n \in StepsWith(t) : k <= n IN
           /\ StepsWith(t) = first .. first + 62
           /\ \A k \in StepsWith(t) : OpJ(FinalSchedule(k, Short)) = k - first

\* C27 witness: the y15 step, whose second slot is final, was applied to
\* values of y9 and final that are not each other's
C27_Witness ==
    /\ phase = "direct" /\ li = NumFinalSteps - 1
    /\ OpT(instr) = 15 /\ outcome = "Ok"
    /\ instr.accounts = <<"y9", "final", "y15">>
    /\ pre["y9"] # pre["final"]
    /\ Decode(pre["y9"]) \notin {Zero, One}

---------------------------------------------------------------------------
(* The trailing form of a Miller step (specification Spec) *)

\* a Miller step with a point other than the point at infinity
MillerStepAtPoint ==
    /\ Processed /\ OpT(instr) \in {0, 1}
    /\ Len(instr.accounts) >= 1
    /\ PointReadable(instr.input) /\ PointDecode(instr.input) # Infinity

\* the accumulator the step started from
StepAccumulator == get_account_data(pre, instr.accounts[1], OpJ(instr))

\* no squaring, the line evaluations at indices 89 and 90
TrailingForm(f, p) == OnchainEll(OnchainEll(f, 89, p), 90, p)

\* C28: a Miller step takes the trailing form (no squaring, line
\* evaluations at indices 89 and 90) if and only if its coeff_index is 89,
\* whatever its loop_index; a step with a non-infinity P, loop_index 0 and a
\* coeff_index other than 89 fails and leaves every slot unchanged.
C28_TrailingFormIffCoeff89 ==
    /\ (MillerStepAtPoint /\ outcome = "Ok" /\ Invertible(StepAccumulator)) =>
           /\ \A a \in Slots \ {instr.accounts[1]} : slots[a] = pre[a]
           /\ (slots[instr.accounts[1]] =
                   Encode(TrailingForm(StepAccumulator, PointDecode(instr.input))))
                  <=> OpJ(instr) = 89
    /\ (MillerStepAtPoint /\ OpJ(instr) = 89 /\ Readable(pre[instr.accounts[1]])) =>
           outcome = "Ok"
    /\ (MillerStepAtPoint /\ OpI(instr) = 0 /\ OpJ(instr) # 89) =>
           (outcome # "Ok" /\ slots = pre)

\* C28 witness: a step with coeff_index 89 and a loop_index that is no
\* index of the loop took the trailing form on a value other than one
C28_Witness ==
    /\ MillerStepAtPoint /\ outcome = "Ok"
    /\ OpI(instr) = 66 /\ OpJ(instr) = 89
    /\ StepAccumulator \notin {Zero, One}
    /\ slots[instr.accounts[1]] =
           Encode(TrailingForm(StepAccumulator, PointDecode(instr.input)))
====
